---- MODULE Spec2Model ----
(***************************************************************************)
(* Authentication and staff-invitation flow of the clinic backend          *)
(* (backend/src/auth/auth.service.ts, auth.controller.ts,                  *)
(* config/configuration.ts).                                               *)
(*                                                                         *)
(* The store (Prisma on PostgreSQL) is three tables: clinics, users,       *)
(* invitations.  Every request is a call that runs the service method one  *)
(* awaited store operation at a time; calls interleave freely between      *)
(* their awaits and the wall clock may advance between any two steps.      *)
(* Time is counted in hours.                                               *)
(*                                                                         *)
(* Rows carry the columns the flow reads or decides on; timestamps the     *)
(* flow only writes (invitedAt, createdAt, updatedAt) are left out.  A     *)
(* request slot is taken by its first store read: a request that has       *)
(* arrived but not yet read anything has had no effect.  The store's       *)
(* constraint violation (Prisma P2002) is not caught anywhere in the       *)
(* service and is answered as "StoreError", the unclassified error.        *)
(***************************************************************************)
EXTENDS Integers, FiniteSets, Sequences, TLC

(* ------------------------------ bounds --------------------------------- *)

\* number of request slots that may be in flight at the same time
NumCalls == 2
\* distinct email addresses clients may submit
NumEmails == 2
\* distinct values the random token source may return
NumTokens == 2
\* how far past one expiry window the clock is followed
MaxSlack == 1

Calls == 1..NumCalls
Emails == 1..NumEmails
MoreEmails == 1..(NumEmails + 1)
Tokens == 1..NumTokens
ClinicNames == {"Demo Clinic"}
FullNames == {"Staff Name"}
\* a password of at most 72 bytes; a password is held as its first 72 bytes
\* and the bytes after them
Short(s) == [first72 |-> s, rest |-> ""]
\* passwords clients submit: one in the base specification, two where the
\* password matters
OnePassword == {Short("password1")}
Passwords == {Short("password1"), Short("password2")}
\* two passwords of 73 bytes that differ in their last byte
LongPasswords ==
  {[first72 |-> "a passphrase of seventy-two bytes", rest |-> r] : r \in {"A", "B"}}
Salts == {1}
\* INVITE_EXPIRY_HOURS as set in the environment: a string of decimal
\* digits, or the empty string when unset
EnvExpiryValues == {<< >>, <<2>>}

(* ---------------------------- enumerations ----------------------------- *)

UserRole == {"OWNER", "ADMIN", "DENTIST"}
\* roles OWNER/ADMIN callers invite for: one in the base specification
OneInviteRole == {"ADMIN"}
InviteRoles == {"ADMIN", "DENTIST"}
RouteRoles == {"OWNER", "ADMIN"}

NoTime == -1
NoId == 0

(* ------------------------------ state ---------------------------------- *)

VARIABLES
  clinics,      \* Clinic rows
  users,        \* User rows
  invitations,  \* StaffInvitation rows
  sessions,     \* principals of the session credentials issued so far
  now,          \* wall clock (new Date()), in hours
  envExpiry,    \* process.env.INVITE_EXPIRY_HOURS
  pc,           \* position of each call
  dto,          \* request body (and session principal) of each call
  local,        \* local variables of each call
  result        \* outcome of each finished call

vars == <<clinics, users, invitations, sessions, now, envExpiry, pc, dto, local, result>>

(* --------------------------- configuration ----------------------------- *)

RECURSIVE ParseInt(_)
\* parseInt(s, 10) on a string of decimal digits
ParseInt(s) ==
  IF Len(s) = 0 THEN 0
  ELSE 10 * ParseInt(SubSeq(s, 1, Len(s) - 1)) + s[Len(s)]

DefaultExpiryDigits == <<7, 2>>

\* a configuration that never reads INVITE_EXPIRY_HOURS
ConfigExpiryHours_DefaultOnly(env) == ParseInt(DefaultExpiryDigits)

\* invites.expiryHours of configuration()
ConfigExpiryHours(env) ==
  ParseInt(IF env = << >> THEN DefaultExpiryDigits ELSE env)

expiryHours == ConfigExpiryHours(envExpiry)

(* ------------------------------ helpers -------------------------------- *)

\* date-fns addHours
addHours(date, h) == date + h

\* date-fns isBefore(date, dateToCompare)
isBefore(date, dateToCompare) == date < dateToCompare

\* the key bcrypt derives the digest from: the first 72 bytes of the input
BcryptKey(password) == password.first72

\* bcrypt.hash(password, 10) with the salt it drew
BcryptHash(password, salt) ==
  [salt |-> salt, digest |-> <<salt, BcryptKey(password)>>]

\* bcrypt.compare(password, hash)
BcryptCompare(password, hash) == BcryptHash(password, hash.salt) = hash

\* a lookup of the email among the clinic owners only
FindUserByEmail_OwnersOnly(email) ==
  {u \in users : u.email = email /\ u.role = "OWNER"}

\* prisma.user.findUnique({ where: { email } }): the set of matches (0 or 1)
FindUserByEmail(email) == {u \in users : u.email = email}

\* a lookup of the invitation by its id instead of its token
FindInvitationByToken_ById(token) == {i \in invitations : i.id = token}

\* prisma.staffInvitation.findUnique({ where: { token } })
FindInvitationByToken(token) == {i \in invitations : i.token = token}

\* cuid() of a new row: a value no row of the table carries
NewId(rows) == Cardinality(rows) + 1

\* a store without the unique constraint on User.email
UserEmailFree_Unchecked(user) == TRUE

\* a store whose unique constraint on the email is scoped to the clinic
UserEmailFree_PerClinic(user) ==
  {u \in users : u.email = user.email /\ u.clinicId = user.clinicId} = {}

\* unique constraint User.email, checked by the store when a row is inserted
UserEmailFree(user) == FindUserByEmail(user.email) = {}

\* a store without the unique constraint on StaffInvitation.token
InvitationTokenFree_Unchecked(token) == TRUE

\* unique constraint StaffInvitation.token, checked by the store on insert
InvitationTokenFree(token) == FindInvitationByToken(token) = {}

\* the claim set generateToken signs and returns
Payload(user) ==
  [sub |-> user.id, clinicId |-> user.clinicId, role |-> user.role,
   email |-> user.email, fullName |-> user.fullName]

\* a response: the operation, the key it was about (email or invitation
\* token) and the credential it was made with, the exception thrown or "ok",
\* and the body returned
Response(req, kind, user, invite) ==
  [op |-> req.op, email |-> req.email, token |-> req.token,
   caller |-> req.caller, kind |-> kind, user |-> user, invite |-> invite]

Outcome(req, kind) == Response(req, kind, {}, {})

OkUser(req, user) == Response(req, "ok", {Payload(user)}, {})

OkInvite(req, inv) ==
  Response(req, "ok", {},
           {[invitationId |-> inv.id, token |-> inv.token, expiresAt |-> inv.expiresAt]})

NoDto ==
  [op |-> "none", clinicName |-> "", email |-> 0, fullName |-> "",
   password |-> Short(""),
   role |-> "", token |-> 0, caller |-> {}]

NoLocal == [invitation |-> {}, user |-> {}, token |-> 0, expiresAt |-> NoTime]

\* a slot takes a new request once its last response has been sent
Free(p) == pc[p] = "idle"

\* the call returns or throws: its request body and locals are gone, its
\* outcome is the response
Finish(p, out) ==
  /\ pc' = [pc EXCEPT ![p] = "done"]
  /\ result' = [result EXCEPT ![p] = out]
  /\ dto' = [dto EXCEPT ![p] = NoDto]
  /\ local' = [local EXCEPT ![p] = NoLocal]

\* the call got past its first store read and goes on to its next step
Begin(p, req, locals, next) ==
  /\ pc' = [pc EXCEPT ![p] = next]
  /\ dto' = [dto EXCEPT ![p] = req]
  /\ local' = [local EXCEPT ![p] = locals]
  /\ result' = [result EXCEPT ![p] = Outcome(NoDto, "none")]

(* ------------------------------- Init ---------------------------------- *)

Init ==
  /\ clinics = {}
  /\ users = {}
  /\ invitations = {}
  /\ sessions = {}
  /\ now = 0
  /\ envExpiry \in EnvExpiryValues
  /\ pc = [p \in Calls |-> "idle"]
  /\ dto = [p \in Calls |-> NoDto]
  /\ local = [p \in Calls |-> NoLocal]
  /\ result = [p \in Calls |-> Outcome(NoDto, "none")]

(* ------------------------------ signup --------------------------------- *)

\* clinic.create followed by a separate user.create: the Clinic row stays
\* when the User insert fails
ClinicsAfterCreate_TwoWrites(clinic, userInserted) == clinics \cup {clinic}

\* rows of clinic.create with a nested users.create: one store transaction,
\* so the Clinic row is kept only when the nested User insert went through
ClinicsAfterCreate(clinic, userInserted) ==
  IF userInserted THEN clinics \cup {clinic} ELSE clinics

\* the nested users.create of signup given the role of an invited admin
NewOwner_AsAdmin(req, clinicId, id, salt) ==
  [id |-> id, email |-> req.email, fullName |-> req.fullName,
   passwordHash |-> BcryptHash(req.password, salt),
   role |-> "ADMIN", clinicId |-> clinicId, invitationId |-> NoId]

\* the nested users.create of signup: the owner row
NewOwner(req, clinicId, id, salt) ==
  [id |-> id, email |-> req.email, fullName |-> req.fullName,
   passwordHash |-> BcryptHash(req.password, salt),
   role |-> "OWNER", clinicId |-> clinicId, invitationId |-> NoId]

\* a signup that inserts the Clinic before it looks for the email: the row
\* stays when the email turns out to be taken
SignupFind_CreateFirst(p, emails, passwords) ==
  /\ Free(p)
  /\ \E clinicName \in ClinicNames, email \in emails, ownerName \in FullNames,
        password \in passwords :
       LET req == [NoDto EXCEPT !.op = "signup", !.clinicName = clinicName,
                                !.email = email, !.fullName = ownerName,
                                !.password = password]
       IN IF FindUserByEmail(email) # {}
            THEN /\ Finish(p, Outcome(req, "DuplicateEmail"))
                 /\ clinics' = clinics \cup {[id |-> NewId(clinics), name |-> clinicName]}
            ELSE /\ Begin(p, req, NoLocal, "su_create")
                 /\ UNCHANGED clinics
  /\ UNCHANGED <<users, invitations, sessions, now, envExpiry>>

\* signup, up to the answer of findUnique: the email check
SignupFind(p, emails, passwords) ==
  /\ Free(p)
  /\ \E clinicName \in ClinicNames, email \in emails, ownerName \in FullNames,
        password \in passwords :
       LET req == [NoDto EXCEPT !.op = "signup", !.clinicName = clinicName,
                                !.email = email, !.fullName = ownerName,
                                !.password = password]
       IN IF FindUserByEmail(email) # {}
            THEN Finish(p, Outcome(req, "DuplicateEmail"))
            ELSE Begin(p, req, NoLocal, "su_create")
  /\ UNCHANGED <<clinics, users, invitations, sessions, now, envExpiry>>

\* signup: bcrypt.hash, clinic.create with the nested owner, generateToken
SignupCreate(p) ==
  /\ pc[p] = "su_create"
  /\ \E salt \in Salts :
       LET clinic == [id |-> NewId(clinics), name |-> dto[p].clinicName]
           owner == NewOwner(dto[p], clinic.id, NewId(users), salt)
           inserted == UserEmailFree(owner)
       IN /\ clinics' = ClinicsAfterCreate(clinic, inserted)
          /\ IF inserted
               THEN /\ users' = users \cup {owner}
                    /\ sessions' = sessions \cup {Payload(owner)}
                    /\ Finish(p, OkUser(dto[p], owner))
               ELSE /\ UNCHANGED <<users, sessions>>
                    /\ Finish(p, Outcome(dto[p], "StoreError"))
  /\ UNCHANGED <<invitations, now, envExpiry>>

(* ------------------------------- login --------------------------------- *)

\* login that tells an unknown email from a wrong password
LoginFailure_Telling(userFound) ==
  IF userFound THEN "InvalidCredentials" ELSE "UserNotFound"

\* throw new UnauthorizedException('Invalid credentials'): one exception for
\* both causes
LoginFailure(userFound) == "InvalidCredentials"

\* login that accepts any password of an existing user
PasswordMatches_Unchecked(password, user) == TRUE

\* await bcrypt.compare(dto.password, user.passwordHash)
PasswordMatches(password, user) == BcryptCompare(password, user.passwordHash)

\* login, up to the answer of findUnique: !user short-circuits to the throw
LoginFind(p, emails, passwords) ==
  /\ Free(p)
  /\ \E email \in emails, password \in passwords :
       LET req == [NoDto EXCEPT !.op = "login", !.email = email,
                                !.password = password]
           found == FindUserByEmail(email)
       IN IF found = {}
            THEN Finish(p, Outcome(req, LoginFailure(FALSE)))
            ELSE Begin(p, req, [NoLocal EXCEPT !.user = found], "lg_compare")
  /\ UNCHANGED <<clinics, users, invitations, sessions, now, envExpiry>>

\* login: bcrypt.compare, then the throw or generateToken
LoginCompare(p) ==
  /\ pc[p] = "lg_compare"
  /\ LET user == CHOOSE u \in local[p].user : TRUE
     IN IF ~PasswordMatches(dto[p].password, user)
          THEN /\ Finish(p, Outcome(dto[p], LoginFailure(TRUE)))
               /\ UNCHANGED sessions
          ELSE /\ Finish(p, OkUser(dto[p], user))
               /\ sessions' = sessions \cup {Payload(user)}
  /\ UNCHANGED <<clinics, users, invitations, now, envExpiry>>

(* ----------------------------- inviteStaff ----------------------------- *)

\* JwtAuthGuard + RolesGuard + @Roles(OWNER, ADMIN) on POST auth/invite: the
\* request carries a session credential this service issued and its role
\* is one of the route's roles
MayInvite(principal) == principal \in sessions /\ principal.role \in RouteRoles

\* what a request to POST auth/invite presents: the principal of a session
\* credential this service issued, or nothing that verifies (no credential,
\* a forged or an outdated one)
Presented == {{}} \cup {{c} : c \in sessions}

\* JwtAuthGuard: the request carries a credential that verifies
JwtAuthGuard(presented) == presented # {} /\ presented \subseteq sessions

\* RolesGuard under @Roles(OWNER, ADMIN)
RolesGuard(principal) == principal.role \in RouteRoles

\* an invitation bound to the first clinic, whoever invites
NewInvitation_FirstClinic(caller, req, token, expiresAt, id) ==
  [id |-> id, clinicId |-> 1, email |-> req.email,
   role |-> req.role, token |-> token, expiresAt |-> expiresAt,
   acceptedAt |-> NoTime, createdById |-> caller.sub]

\* an email check that looks only at the users of the inviter's clinic
InviteEmailTaken_PerClinic(clinicId, email) ==
  {u \in FindUserByEmail(email) : u.clinicId = clinicId} # {}

\* const existingUser = findUnique({ where: { email } }); if (existingUser):
\* the inviter's clinic plays no part
InviteEmailTaken(clinicId, email) == FindUserByEmail(email) # {}

\* the data of staffInvitation.create; acceptedAt is left to its default
NewInvitation(caller, req, token, expiresAt, id) ==
  [id |-> id, clinicId |-> caller.clinicId, email |-> req.email,
   role |-> req.role, token |-> token, expiresAt |-> expiresAt,
   acceptedAt |-> NoTime, createdById |-> caller.sub]

\* POST auth/invite turned away by a guard, before the body is read
InviteReject(p) ==
  /\ Free(p)
  /\ \E presented \in Presented :
       LET req == [NoDto EXCEPT !.op = "invite", !.caller = presented]
       IN IF ~JwtAuthGuard(presented)
            THEN Finish(p, Outcome(req, "Unauthenticated"))
            ELSE /\ \E c \in presented : ~RolesGuard(c)
                 /\ Finish(p, Outcome(req, "Forbidden"))
  /\ UNCHANGED <<clinics, users, invitations, sessions, now, envExpiry>>

\* inviteStaff, up to the answer of findUnique: the email check
InviteFind(p, emails, roles) ==
  /\ Free(p)
  /\ \E caller \in sessions, email \in emails, role \in roles :
       LET req == [NoDto EXCEPT !.op = "invite", !.email = email,
                                !.role = role, !.caller = {caller}]
       IN /\ MayInvite(caller)
          /\ IF InviteEmailTaken(caller.clinicId, email)
               THEN Finish(p, Outcome(req, "DuplicateEmail"))
               ELSE Begin(p, req, NoLocal, "iv_prepare")
  /\ UNCHANGED <<clinics, users, invitations, sessions, now, envExpiry>>

\* inviteStaff: generateInviteToken, config.get, addHours(new Date(), ..)
InvitePrepare(p) ==
  /\ pc[p] = "iv_prepare"
  /\ \E token \in Tokens :
       local' = [local EXCEPT ![p] =
                   [NoLocal EXCEPT !.token = token,
                                   !.expiresAt = addHours(now, expiryHours)]]
  /\ pc' = [pc EXCEPT ![p] = "iv_create"]
  /\ UNCHANGED <<clinics, users, invitations, sessions, now, envExpiry, dto, result>>

\* inviteStaff: staffInvitation.create and the response
InviteCreate(p) ==
  /\ pc[p] = "iv_create"
  /\ LET caller == CHOOSE c \in dto[p].caller : TRUE
         invitation == NewInvitation(caller, dto[p], local[p].token,
                                     local[p].expiresAt, NewId(invitations))
         req == [dto[p] EXCEPT !.token = invitation.token]
     IN IF InvitationTokenFree(invitation.token)
          THEN /\ invitations' = invitations \cup {invitation}
               /\ Finish(p, OkInvite(req, invitation))
          ELSE /\ UNCHANGED invitations
               /\ Finish(p, Outcome(req, "StoreError"))
  /\ UNCHANGED <<clinics, users, sessions, now, envExpiry>>

(* --------------------------- acceptInvitation -------------------------- *)

\* acceptInvitation without the check of acceptedAt
AlreadyAccepted_Unchecked(invitation) == FALSE

\* if (invitation.acceptedAt)
AlreadyAccepted(invitation) == invitation.acceptedAt # NoTime

\* if (isBefore(invitation.expiresAt, new Date()))
InvitationExpired(invitation, date) == isBefore(invitation.expiresAt, date)

\* staffInvitation.update({ where: { id }, data: { acceptedAt } })
InvitationsAfterUpdate(id, acceptedAt) ==
  {IF i.id = id THEN [i EXCEPT !.acceptedAt = acceptedAt] ELSE i : i \in invitations}

\* the data of user.create with the role of the request's default instead of
\* the invitation's
NewStaffUser_FixedRole(invitation, req, id, salt) ==
  [id |-> id, email |-> invitation.email, fullName |-> req.fullName,
   passwordHash |-> BcryptHash(req.password, salt),
   role |-> "ADMIN", clinicId |-> invitation.clinicId,
   invitationId |-> invitation.id]

\* the data of user.create in acceptInvitation
NewStaffUser(invitation, req, id, salt) ==
  [id |-> id, email |-> invitation.email, fullName |-> req.fullName,
   passwordHash |-> BcryptHash(req.password, salt),
   role |-> invitation.role, clinicId |-> invitation.clinicId,
   invitationId |-> invitation.id]

\* acceptInvitation, up to the answer of findUnique: the two checks that
\* depend on the row alone
AcceptFind(p, passwords) ==
  /\ Free(p)
  /\ \E token \in Tokens, fullName \in FullNames, password \in passwords :
       LET req == [NoDto EXCEPT !.op = "accept", !.token = token,
                                !.fullName = fullName, !.password = password]
           found == FindInvitationByToken(token)
           invitation == CHOOSE i \in found : TRUE
       IN IF found = {}
            THEN Finish(p, Outcome(req, "InvalidToken"))
            ELSE IF AlreadyAccepted(invitation)
              THEN Finish(p, Outcome(req, "AlreadyUsed"))
              ELSE Begin(p, req, [NoLocal EXCEPT !.invitation = found], "ai_check")
  /\ UNCHANGED <<clinics, users, invitations, sessions, now, envExpiry>>

\* acceptInvitation: the expiry check against new Date()
AcceptCheck(p) ==
  /\ pc[p] = "ai_check"
  /\ LET invitation == CHOOSE i \in local[p].invitation : TRUE
     IN IF InvitationExpired(invitation, now)
          THEN Finish(p, Outcome(dto[p], "Expired"))
          ELSE /\ pc' = [pc EXCEPT ![p] = "ai_create"]
               /\ UNCHANGED <<result, dto, local>>
  /\ UNCHANGED <<clinics, users, invitations, sessions, now, envExpiry>>

\* acceptInvitation: bcrypt.hash and user.create
AcceptCreate(p) ==
  /\ pc[p] = "ai_create"
  /\ \E salt \in Salts :
       LET invitation == CHOOSE i \in local[p].invitation : TRUE
           user == NewStaffUser(invitation, dto[p], NewId(users), salt)
       IN IF UserEmailFree(user)
            THEN /\ users' = users \cup {user}
                 /\ local' = [local EXCEPT ![p].user = {user}]
                 /\ pc' = [pc EXCEPT ![p] = "ai_update"]
                 /\ UNCHANGED <<result, dto>>
            ELSE /\ Finish(p, Outcome(dto[p], "StoreError"))
                 /\ UNCHANGED users
  /\ UNCHANGED <<clinics, invitations, sessions, now, envExpiry>>

\* acceptInvitation: staffInvitation.update and generateToken
AcceptUpdate(p) ==
  /\ pc[p] = "ai_update"
  /\ LET invitation == CHOOSE i \in local[p].invitation : TRUE
         user == CHOOSE u \in local[p].user : TRUE
     IN /\ invitations' = InvitationsAfterUpdate(invitation.id, now)
        /\ sessions' = sessions \cup {Payload(user)}
        /\ Finish(p, OkUser(dto[p], user))
  /\ UNCHANGED <<clinics, users, now, envExpiry>>

(* --------------------------- environment ------------------------------- *)

\* the response has been sent; the slot serves the next request
Return(p) ==
  /\ pc[p] = "done"
  /\ pc' = [pc EXCEPT ![p] = "idle"]
  /\ result' = [result EXCEPT ![p] = Outcome(NoDto, "none")]
  /\ UNCHANGED <<clinics, users, invitations, sessions, now, envExpiry, dto, local>>

\* the wall clock advances: by one expiry window, and past it by the hour
Tick ==
  /\ \E d \in {1, expiryHours} :
       /\ now + d <= expiryHours + MaxSlack
       /\ d = 1 => now >= expiryHours
       /\ now' = now + d
  /\ UNCHANGED <<clinics, users, invitations, sessions, envExpiry, pc, dto, local, result>>

\* one step of the service: requests run in the given slots, from clients
\* that submit the given emails and passwords and invite for the given roles
StepOn(slots, emails, passwords, roles) ==
  \/ \E p \in slots : SignupFind(p, emails, passwords)
  \/ \E p \in slots : SignupCreate(p)
  \/ \E p \in slots : LoginFind(p, emails, passwords)
  \/ \E p \in slots : LoginCompare(p)
  \/ \E p \in slots : InviteReject(p)
  \/ \E p \in slots : InviteFind(p, emails, roles)
  \/ \E p \in slots : InvitePrepare(p)
  \/ \E p \in slots : InviteCreate(p)
  \/ \E p \in slots : AcceptFind(p, passwords)
  \/ \E p \in slots : AcceptCheck(p)
  \/ \E p \in slots : AcceptCreate(p)
  \/ \E p \in slots : AcceptUpdate(p)
  \/ \E p \in slots : Return(p)
  \/ Tick

\* one step of the service for the emails of the base specification
Step(slots, passwords, roles) == StepOn(slots, Emails, passwords, roles)

\* concurrent requests
Next == Step(Calls, OnePassword, OneInviteRole)

Spec == Init /\ [][Next]_vars

\* concurrent requests from clients that submit either of two passwords
NextPasswords == Step(Calls, Passwords, OneInviteRole)

SpecPasswords == Init /\ [][NextPasswords]_vars

\* concurrent requests from callers that invite for either of two roles
NextRoles == Step(Calls, OnePassword, InviteRoles)

SpecRoles == Init /\ [][NextRoles]_vars

\* concurrent requests from clients that submit passwords longer than 72 bytes
NextLongPasswords == Step(Calls, LongPasswords, OneInviteRole)

SpecLongPasswords == Init /\ [][NextLongPasswords]_vars

\* requests served one at a time, for one email more: room for the staff of
\* two clinics
NextTenants == StepOn({1}, MoreEmails, OnePassword, InviteRoles)

SpecTenants == Init /\ [][NextTenants]_vars

(* ======================= properties of the flow ======================== *)

\* users created from the invitation (invitation: { connect: { id } })
LinkedUsers(invitation) == {u \in users : u.invitationId = invitation.id}

\* the call in slot p has answered operation op
Answered(p, op) == pc[p] = "done" /\ result[p].op = op

\* a used invitation row is never written again
UsedInvitationsKept ==
  \A i \in invitations : i.acceptedAt # NoTime => i \in invitations'

(* ---- C1 ---- *)

\* C1: for acceptInvitation calls on one token, interleaved at their store
\* reads and writes, at most one User linked to the invitation is ever
\* created and at most one call returns a session credential: no two
\* answers for a token are both credentials, every credential is returned
\* by the step that takes the invitation from unused to used, and a used
\* invitation never becomes unused again.
C1_AtMostOneAcceptance ==
  /\ [](/\ \A i \in invitations : Cardinality(LinkedUsers(i)) <= 1
        /\ \A p, q \in Calls :
             (/\ p # q
              /\ Answered(p, "accept") /\ Answered(q, "accept")
              /\ result[p].token = result[q].token)
             => ~(result[p].kind = "ok" /\ result[q].kind = "ok"))
  /\ [][/\ \A p \in Calls :
             (pc[p] = "ai_update" /\ pc'[p] = "done" /\ result'[p].kind = "ok")
             => \A i \in invitations :
                  i.token = dto[p].token =>
                    (/\ i.acceptedAt = NoTime
                     /\ \E j \in invitations' : j.id = i.id /\ j.acceptedAt # NoTime)
        /\ UsedInvitationsKept]_vars

\* two calls raced on one token: one got the credential, the other lost at
\* user.create
C1_Witness ==
  \E p, q \in Calls :
    /\ Answered(p, "accept") /\ Answered(q, "accept")
    /\ result[p].token = result[q].token
    /\ result[p].kind = "ok" /\ result[q].kind = "StoreError"
    /\ \E i \in invitations : i.token = result[p].token /\ LinkedUsers(i) # {}

(* ---- C2 ---- *)

C3_UsedIffLinkedUser ==
  \A i \in invitations : (i.acceptedAt # NoTime) <=> (LinkedUsers(i) # {})

(* ---- C4 ---- *)

\* C4: of the signup calls made with one email, when one succeeds every
\* other fails with DuplicateEmail.
C4_LoserGetsDuplicateEmail ==
  \A p, q \in Calls :
    (/\ p # q
     /\ Answered(p, "signup") /\ Answered(q, "signup")
     /\ result[p].email = result[q].email
     /\ result[p].kind = "ok")
    => result[q].kind = "DuplicateEmail"

(* ---- C5 ---- *)

\* C5: in every state every Clinic has a User bound to it and every User
\* references an existing Clinic; a signup that succeeds adds exactly one
\* Clinic and one User, a signup that fails at its create adds neither.
C5_SignupAtomic ==
  /\ [](/\ \A c \in clinics : \E u \in users : u.clinicId = c.id
        /\ \A u \in users : \E c \in clinics : c.id = u.clinicId)
  /\ [][\A p \in Calls :
          (pc[p] = "su_create" /\ pc'[p] = "done")
          => IF result'[p].kind = "ok"
               THEN /\ Cardinality(clinics') = Cardinality(clinics) + 1
                    /\ Cardinality(users') = Cardinality(users) + 1
                    /\ clinics \subseteq clinics' /\ users \subseteq users'
               ELSE clinics' = clinics /\ users' = users]_vars

\* two signups raced on one email: one created its Clinic and owner, the
\* other lost at the create
C5_Witness ==
  \E p, q \in Calls :
    /\ Answered(p, "signup") /\ Answered(q, "signup")
    /\ result[p].email = result[q].email
    /\ result[p].kind = "ok" /\ result[q].kind = "StoreError"
    /\ clinics # {}

(* ---- C6 ---- *)

\* C6: no two User rows share an email, whatever clinics they belong to.
C6_EmailGloballyUnique ==
  \A u, v \in users : u.email = v.email => u = v

\* users of two clinics exist and an insert of a taken email was refused
C6_Witness ==
  /\ \E u, v \in users : u.clinicId # v.clinicId
  /\ \E p \in Calls :
       /\ pc[p] = "done" /\ result[p].kind = "StoreError"
       /\ result[p].op \in {"signup", "accept"}

(* ---- C7 ---- *)

\* slot p takes an acceptInvitation request for the token in this step
StartsAccept(p, token) ==
  /\ pc[p] = "idle"
  /\ \/ pc'[p] = "done" /\ result'[p].op = "accept" /\ result'[p].token = token
     \/ pc'[p] = "ai_check" /\ dto'[p].token = token

\* C7: a credential returned by acceptInvitation means the invitation is
\* used; every acceptInvitation call that starts on a used invitation
\* fails with AlreadyUsed and leaves users and invitations as they were,
\* whatever fullName and password it carries; and a used invitation keeps
\* its acceptedAt.
C7_SecondAcceptAlreadyUsed ==
  /\ [](\A p \in Calls :
          (Answered(p, "accept") /\ result[p].kind = "ok")
          => \E i \in invitations :
               i.token = result[p].token /\ i.acceptedAt # NoTime)
  /\ [][/\ \A p \in Calls, t \in Tokens :
             (/\ StartsAccept(p, t)
              /\ \E i \in invitations : i.token = t /\ i.acceptedAt # NoTime)
             => /\ pc'[p] = "done"
                /\ result'[p].kind = "AlreadyUsed"
                /\ users' = users
                /\ invitations' = invitations
        /\ UsedInvitationsKept]_vars

\* a call on a token was answered AlreadyUsed while the credential of the
\* first acceptance (made with the other password) is still on display
C7_Witness ==
  \E p, q \in Calls :
    /\ Answered(p, "accept") /\ Answered(q, "accept")
    /\ result[p].token = result[q].token
    /\ result[p].kind = "ok" /\ result[q].kind = "AlreadyUsed"
    /\ \E i \in invitations, u \in users :
         /\ i.token = result[p].token
         /\ u \in LinkedUsers(i)
         /\ BcryptCompare(Short("password2"), u.passwordHash)

(* ---- C8 ---- *)

\* C8: an acceptInvitation call that reaches its expiry check at or after
\* the invitation's expiresAt fails with Expired.
C8_ExpiredAtOrAfterExpiry ==
  [][\A p \in Calls :
       (/\ pc[p] = "ai_check" /\ pc'[p] # "ai_check"
        /\ \A i \in local[p].invitation : now >= i.expiresAt)
       => pc'[p] = "done" /\ result'[p].kind = "Expired"]_vars

(* ---- C9 ---- *)

\* C9: every used invitation was accepted strictly before its expiry.
C9_AcceptedBeforeExpiry ==
  \A i \in invitations : i.acceptedAt # NoTime => i.acceptedAt < i.expiresAt

(* ---- C10 ---- *)

\* C10: acceptInvitation returns a credential or fails with InvalidToken,
\* AlreadyUsed or Expired, nothing else.
C10_AcceptErrorsClosed ==
  \A p \in Calls :
    Answered(p, "accept")
    => result[p].kind \in {"ok", "InvalidToken", "AlreadyUsed", "Expired"}

(* ---- C11 ---- *)

\* the invitation rows carrying the token
InvitationOf(token) == {i \in invitations : i.token = token}

\* C11: of two acceptInvitation calls made on two existing invitations for
\* one email, neither of them expired, when one creates the user the other
\* observes DuplicateEmail.
C11_SecondInviteeGetsDuplicateEmail ==
  \A p, q \in Calls :
    (/\ p # q
     /\ Answered(p, "accept") /\ Answered(q, "accept")
     /\ result[p].token # result[q].token
     /\ result[p].kind = "ok"
     /\ result[q].kind # "InvalidToken"
     /\ \E i \in InvitationOf(result[p].token), j \in InvitationOf(result[q].token) :
          i.email = j.email /\ now < j.expiresAt)
    => result[q].kind = "DuplicateEmail"

(* ---- C12 ---- *)

\* C12: a credential returned by acceptInvitation names the one user linked
\* to the invitation; that user has the invitation's email, role and clinic
\* and the invitation's acceptedAt is set.  The call adds exactly one User
\* row, at its user.create, and none afterwards.
C12_AcceptCreatesInvitedUser ==
  /\ [](\A p \in Calls :
          (Answered(p, "accept") /\ result[p].kind = "ok")
          => \E i \in InvitationOf(result[p].token), u \in users :
               /\ LinkedUsers(i) = {u}
               /\ u.email = i.email /\ u.role = i.role /\ u.clinicId = i.clinicId
               /\ i.acceptedAt # NoTime
               /\ result[p].user = {Payload(u)})
  /\ [][\A p \in Calls :
          /\ (pc[p] = "ai_create" /\ pc'[p] = "ai_update")
             => /\ users \subseteq users'
                /\ Cardinality(users') = Cardinality(users) + 1
          /\ (pc[p] = "ai_update" /\ pc'[p] # "ai_update")
             => /\ users' = users
                /\ pc'[p] = "done" /\ result'[p].kind = "ok"]_vars

\* an invitation for a dentist was accepted: the credential names a DENTIST
\* of the inviter's clinic
C12_Witness ==
  \E p \in Calls :
    /\ Answered(p, "accept") /\ result[p].kind = "ok"
    /\ \E pr \in result[p].user : pr.role = "DENTIST"
    /\ \E i \in InvitationOf(result[p].token) : i.acceptedAt # NoTime

(* ---- C13 ---- *)

\* C13: acceptInvitation with a token that no persisted invitation carries
\* is answered at once with InvalidToken, which is neither AlreadyUsed nor
\* Expired, and users and invitations stay as they were.
C13_UnknownTokenIsInvalidToken ==
  [][\A p \in Calls, t \in Tokens :
       (StartsAccept(p, t) /\ InvitationOf(t) = {})
       => /\ pc'[p] = "done"
          /\ result'[p].kind = "InvalidToken"
          /\ result'[p].kind \notin {"AlreadyUsed", "Expired"}
          /\ users' = users /\ invitations' = invitations
          /\ clinics' = clinics]_vars

\* an unknown token was refused while another invitation is stored
C13_Witness ==
  \E p \in Calls :
    /\ Answered(p, "accept") /\ result[p].kind = "InvalidToken"
    /\ invitations # {}
    /\ InvitationOf(result[p].token) = {}

(* ---- C14 ---- *)

\* slot p takes up a signup request for the email
StartsSignup(p, email) ==
  /\ pc[p] = "idle"
  /\ \/ pc'[p] = "done" /\ result'[p].op = "signup" /\ result'[p].email = email
     \/ pc'[p] = "su_create" /\ dto'[p].email = email

\* C14: signup for an email that a user already holds, whatever the clinic
\* of that user and whether signup or an accepted invitation created it, is
\* answered with DuplicateEmail and creates no Clinic and no User.
C14_SignupTakenEmailRefused ==
  [][\A p \in Calls, e \in Emails :
       (StartsSignup(p, e) /\ \E u \in users : u.email = e)
       => /\ pc'[p] = "done"
          /\ result'[p].kind = "DuplicateEmail"
          /\ clinics' = clinics /\ users' = users]_vars

\* a signup was refused for the email of a user who joined by invitation
C14_Witness ==
  \E p \in Calls :
    /\ Answered(p, "signup") /\ result[p].kind = "DuplicateEmail"
    /\ \E u \in users : u.email = result[p].email /\ u.invitationId # NoId

(* ---- C15 ---- *)

\* C15: the credential a successful signup returns names the user this call
\* created: role OWNER, the email and name of the request, and the id of the
\* Clinic this call created, an id no earlier clinic, user or invitation
\* carries.
C15_SignupReturnsNewOwner ==
  [][\A p \in Calls :
       (pc[p] = "su_create" /\ pc'[p] = "done" /\ result'[p].kind = "ok")
       => \E u \in users' \ users, c \in clinics' \ clinics :
            /\ users' \ users = {u} /\ clinics' \ clinics = {c}
            /\ result'[p].user = {Payload(u)}
            /\ \A pr \in result'[p].user :
                 /\ pr.role = "OWNER"
                 /\ pr.email = dto[p].email /\ pr.fullName = dto[p].fullName
                 /\ pr.sub = u.id /\ pr.clinicId = c.id
            /\ \A x \in clinics : x.id # c.id
            /\ \A x \in users : x.clinicId # c.id
            /\ \A i \in invitations : i.clinicId # c.id]_vars

\* a second clinic was signed up after the first one had invited staff
C15_Witness ==
  \E p \in Calls :
    /\ Answered(p, "signup") /\ result[p].kind = "ok"
    /\ Cardinality(clinics) = 2 /\ invitations # {}
    /\ \E pr \in result[p].user :
         pr.role = "OWNER" /\ \A i \in invitations : i.clinicId # pr.clinicId

(* ---- C16 ---- *)

AllPasswords == Passwords \cup LongPasswords

\* the passwords whose submission at the creation of the user leaves the
\* stored row: the hash is all the store keeps of the password
CreationPasswords(user) ==
  {pw \in AllPasswords :
     BcryptHash(pw, user.passwordHash.salt) = user.passwordHash}

\* C16: the row a signup or an acceptance creates keeps the hash of the
\* password the request supplied; login for the email of a user returns the
\* credential of that user exactly when the password submitted is the one
\* supplied at the creation, and InvalidCredentials otherwise and for an
\* email no user holds.
C16_LoginIffCreationPassword ==
  [][\A p \in Calls :
       /\ (pc[p] \in {"su_create", "ai_create"} /\ pc'[p] # pc[p])
          => \A u \in users' \ users : dto[p].password \in CreationPasswords(u)
       /\ (pc[p] = "lg_compare" /\ pc'[p] = "done")
          => /\ result'[p].kind \in {"ok", "InvalidCredentials"}
             /\ \A u \in local[p].user :
                  \A pw \in CreationPasswords(u) :
                    (result'[p].kind = "ok" /\ result'[p].user = {Payload(u)})
                    <=> dto[p].password = pw
       /\ (pc[p] = "idle" /\ pc'[p] = "done" /\ result'[p].op = "login")
          => /\ result'[p].kind = "InvalidCredentials"
             /\ \A u \in users : u.email # result'[p].email]_vars

(* ---- C17 ---- *)

\* what the caller sees of a response: the exception or "ok", and the body
Observable(r) == [kind |-> r.kind, user |-> r.user, invite |-> r.invite]

\* C17: any two failed logins are answered with the same exception and the
\* same body, whether the email of the request belongs to a user or to none.
C17_LoginFailuresAlike ==
  \A p, q \in Calls :
    (/\ Answered(p, "login") /\ result[p].kind # "ok"
     /\ Answered(q, "login") /\ result[q].kind # "ok")
    => Observable(result[p]) = Observable(result[q])

\* one login failed for an email no user holds, the other for the email of
\* a user
C17_Witness ==
  \E p, q \in Calls :
    /\ Answered(p, "login") /\ result[p].kind # "ok"
    /\ Answered(q, "login") /\ result[q].kind # "ok"
    /\ \A u \in users : u.email # result[p].email
    /\ \E u \in users : u.email = result[q].email

(* ---- C18 ---- *)

\* slot p takes up an inviteStaff request for the email
StartsInvite(p, email) ==
  /\ pc[p] = "idle"
  /\ \/ pc'[p] = "done" /\ result'[p].op = "invite" /\ result'[p].email = email
     \/ pc'[p] = "iv_prepare" /\ dto'[p].email = email

\* C18: inviteStaff for an email that a user of any clinic holds is answered
\* with DuplicateEmail and no invitation is persisted.
C18_InviteTakenEmailRefused ==
  [][\A p \in Calls, e \in Emails :
       (StartsInvite(p, e) /\ \E u \in users : u.email = e)
       => /\ pc'[p] = "done"
          /\ result'[p].kind = "DuplicateEmail"
          /\ invitations' = invitations]_vars

\* an invitation was refused for the email of a user of another clinic than
\* the inviter's
C18_Witness ==
  \E p \in Calls :
    /\ Answered(p, "invite") /\ result[p].kind = "DuplicateEmail"
    /\ \E c \in result[p].caller, u \in users :
         u.email = result[p].email /\ u.clinicId # c.clinicId

(* ---- C19 ---- *)

\* the invite-expiry window in force, in hours: the value set in the
\* environment, 72 when none is set
ConfiguredWindow == IF envExpiry = << >> THEN 72 ELSE envExpiry[1]

\* C19: inviteStaff sets the expiry to the time it reads the clock plus the
\* configured window; when it succeeds it has inserted exactly one
\* invitation, not accepted, with the email and role of the request, the
\* clinic and id of the caller and that expiry, and it returns the id, token
\* and expiry of this row.  No step of it writes a User or a Clinic.
C19_InvitePersistsOneInvitation ==
  [][\A p \in Calls :
       /\ (pc[p] = "iv_prepare" /\ pc'[p] = "iv_create")
          => local'[p].expiresAt = now + ConfiguredWindow
       /\ (pc[p] = "iv_create" /\ pc'[p] = "done" /\ result'[p].kind = "ok")
          => \E i \in invitations' \ invitations :
               /\ invitations' = invitations \cup {i}
               /\ i.acceptedAt = NoTime
               /\ i.email = dto[p].email /\ i.role = dto[p].role
               /\ \A c \in dto[p].caller :
                    i.clinicId = c.clinicId /\ i.createdById = c.sub
               /\ i.expiresAt = local[p].expiresAt
               /\ result'[p].invite =
                    {[invitationId |-> i.id, token |-> i.token,
                      expiresAt |-> i.expiresAt]}
       /\ (pc[p] \in {"iv_prepare", "iv_create"} /\ pc'[p] # pc[p])
          => users' = users /\ clinics' = clinics
       /\ (\E e \in Emails : StartsInvite(p, e))
          => users' = users /\ clinics' = clinics]_vars

\* an invitation issued with no window set in the environment and not yet
\* accepted: it expires 72 hours from now
C19_Witness ==
  \E p \in Calls :
    /\ Answered(p, "invite") /\ result[p].kind = "ok"
    /\ envExpiry = << >>
    /\ \E r \in result[p].invite, i \in invitations :
         /\ i.id = r.invitationId /\ i.token = r.token
         /\ i.expiresAt = r.expiresAt /\ i.acceptedAt = NoTime
         /\ r.expiresAt = now + 72

(* ---- C20 ---- *)

\* C20: no two persisted invitations carry the same token, whatever tokens
\* the random source returns.
C20_TokensUnique ==
  \A i, j \in invitations : i.token = j.token => i = j

\* the random source returned the token of a persisted invitation and the
\* store refused the second row
C20_Witness ==
  \E p \in Calls :
    /\ Answered(p, "invite") /\ result[p].kind = "StoreError"
    /\ Cardinality(InvitationOf(result[p].token)) = 1
    /\ Cardinality(invitations) = NumTokens

(* ---- C21 ---- *)

\* slot p takes up a request to POST auth/invite made with the credential
StartsInviteAs(p, presented) ==
  /\ pc[p] = "idle"
  /\ \/ pc'[p] = "done" /\ result'[p].op = "invite"
        /\ result'[p].caller = presented
     \/ pc'[p] = "iv_prepare" /\ dto'[p].caller = presented

\* C21: every persisted invitation carries the clinic of the user who
\* created it, an OWNER or ADMIN; a request to invite without a valid
\* session is answered Unauthenticated, one of a principal with another role
\* Forbidden, neither persists an invitation, and inviteStaff runs only for
\* a principal with a session whose role is OWNER or ADMIN.
C21_InviteOnlyByOwnerOrAdmin ==
  /\ [](\A i \in invitations :
          \E u \in users :
            /\ u.id = i.createdById /\ u.clinicId = i.clinicId
            /\ u.role \in {"OWNER", "ADMIN"})
  /\ [][\A p \in Calls :
          /\ StartsInviteAs(p, {})
             => /\ pc'[p] = "done" /\ result'[p].kind = "Unauthenticated"
                /\ invitations' = invitations
          /\ \A c \in sessions :
               /\ (StartsInviteAs(p, {c}) /\ c.role \notin {"OWNER", "ADMIN"})
                  => /\ pc'[p] = "done" /\ result'[p].kind = "Forbidden"
                     /\ invitations' = invitations
               /\ (StartsInviteAs(p, {c}) /\ c.role \in {"OWNER", "ADMIN"})
                  => result'[p].kind \notin {"Unauthenticated", "Forbidden"}
          /\ (pc[p] = "idle" /\ pc'[p] = "iv_prepare")
             => \E c \in sessions :
                  dto'[p].caller = {c} /\ c.role \in {"OWNER", "ADMIN"}]_vars

\* a dentist was answered Forbidden while invitations of two clinics are
\* persisted, each with the clinic of its creator
C21_Witness ==
  \E p \in Calls :
    /\ Answered(p, "invite") /\ result[p].kind = "Forbidden"
    /\ \E c \in result[p].caller : c.role = "DENTIST"
    /\ \E i, j \in invitations : i.clinicId # j.clinicId

(* ---- C22 ---- *)

\* C22: acceptInvitation looks for the token first, then at acceptedAt, then
\* at the expiry: a token of no invitation is answered InvalidToken, and the
\* token of an accepted invitation AlreadyUsed, also when the invitation is
\* past its expiry; Expired is the answer only for an invitation the call
\* read as not accepted.
C22_AlreadyUsedBeforeExpired ==
  [][\A p \in Calls, t \in Tokens :
       /\ (StartsAccept(p, t) /\ InvitationOf(t) = {})
          => pc'[p] = "done" /\ result'[p].kind = "InvalidToken"
       /\ (StartsAccept(p, t) /\ \E i \in InvitationOf(t) : i.acceptedAt # NoTime)
          => pc'[p] = "done" /\ result'[p].kind = "AlreadyUsed"
       /\ (pc'[p] = "done" /\ pc[p] # "done" /\ result'[p].op = "accept"
           /\ result'[p].token = t /\ result'[p].kind = "Expired")
          => /\ local[p].invitation # {}
             /\ \A i \in local[p].invitation :
                  i.token = t /\ i.acceptedAt = NoTime /\ i.expiresAt < now]_vars

\* an invitation accepted and past its expiry was presented again and
\* answered AlreadyUsed
C22_Witness ==
  \E p \in Calls :
    /\ Answered(p, "accept") /\ result[p].kind = "AlreadyUsed"
    /\ \E i \in InvitationOf(result[p].token) :
         i.acceptedAt # NoTime /\ i.expiresAt < now

(* ---- C23 ---- *)

\* C23: of the invitations issued for one email at most one has a user
\* linked to it and at most one is accepted, although unused invitations for
\* one email are issued side by side.
C23_OneAcceptedInvitationPerEmail ==
  \A i, j \in invitations :
    i.email = j.email
    => /\ (LinkedUsers(i) # {} /\ LinkedUsers(j) # {}) => i = j
       /\ (i.acceptedAt # NoTime /\ j.acceptedAt # NoTime) => i = j

\* two invitations for one email were issued and both stood unused; one of
\* them is now accepted and has its user, the other was presented and
\* refused
C23_Witness ==
  \E i, j \in invitations :
    /\ i # j /\ i.email = j.email
    /\ i.acceptedAt # NoTime /\ LinkedUsers(i) # {}
    /\ j.acceptedAt = NoTime /\ LinkedUsers(j) = {}
    /\ \E p \in Calls :
         /\ Answered(p, "accept") /\ result[p].token = j.token
         /\ result[p].kind # "ok"

(* ---- C24 ---- *)

\* the positions from which a call has written nothing yet and writes
\* nothing in its next step: before its first read, and between the read
\* and the check that follows it in login and acceptInvitation
ReadOnlyPositions == {"idle", "lg_compare", "ai_check"}

\* the answers of the precondition checks
PreconditionFailures == {"DuplicateEmail", "InvalidToken", "AlreadyUsed", "Expired"}

\* C24: login, with either outcome, and a signup, inviteStaff or
\* acceptInvitation refused by one of its precondition checks have gone
\* through read-only steps alone: each of their steps leaves the Clinic, User
\* and StaffInvitation rows as they were.
C24_FailedChecksWriteNothing ==
  [][\A p \in Calls :
       /\ (pc'[p] = "done" /\ pc[p] # "done"
           /\ \/ result'[p].op = "login"
              \/ result'[p].kind \in PreconditionFailures)
          => pc[p] \in ReadOnlyPositions
       /\ (pc'[p] # pc[p] /\ pc[p] \in ReadOnlyPositions)
          => /\ clinics' = clinics /\ users' = users
             /\ invitations' = invitations]_vars

\* a login was answered with a credential and an acceptance with Expired;
\* the invitation is still there, not accepted and without a user
C24_Witness ==
  \E p, q \in Calls :
    /\ Answered(p, "login") /\ result[p].kind = "ok"
    /\ Answered(q, "accept") /\ result[q].kind = "Expired"
    /\ \E i \in InvitationOf(result[q].token) :
         i.acceptedAt = NoTime /\ LinkedUsers(i) = {}

====
